---- MODULE Spec2Model ----
(***************************************************************************)
(* Vita3K: the system-module load policy (module/src/load_module.cpp) and  *)
(* the module list of the settings dialog (gui/src/settings_dialog.cpp).   *)
(***************************************************************************)
EXTENDS Integers, Sequences, FiniteSets

VARIABLES
    sysmodule_paths,    \* module path registry: module id -> sequence of paths
    modules_mode,       \* emuenv.cfg.current_config.modules_mode
    lle_modules,        \* emuenv.cfg.current_config.lle_modules (paths)
    loaded_sysmodules,  \* kernel.loaded_sysmodules
    last_call,          \* the most recent query and the value it returned
    memo,               \* an earlier is_lle_module call, with the configuration it saw
    modules,            \* gui.modules: sequence of (name, selected)
    cfg_lle_modules,    \* host.cfg.lle_modules (module names)
    module_search_bar,  \* gui.module_search_bar (filter text)
    last_op             \* the most recent settings-dialog operation

vars == <<sysmodule_paths, modules_mode, lle_modules, loaded_sysmodules, last_call,
          memo, modules, cfg_lle_modules, module_search_bar, last_op>>

resolver_vars == <<sysmodule_paths, modules_mode, lle_modules, loaded_sysmodules,
                   last_call, memo>>

gui_vars == <<modules, cfg_lle_modules, module_search_bar, last_op>>

-----------------------------------------------------------------------------
(* Bounds *)

\* longest user allow-list of paths the configuration actions produce
MaxLle == 2

\* most modules the kernel records as loaded in one session
MaxLoaded == 2

\* longest allow-list of names the settings dialog starts from
MaxInitLle == 2

-----------------------------------------------------------------------------
(* Generic helpers *)

Range(s) == {s[i] : i \in 1..Len(s)}

SeqsUpTo(S, n) == UNION {[1..k -> S] : k \in 0..n}

NoDuplicates(s) == \A i, j \in 1..Len(s) : s[i] = s[j] => i = j

RECURSIVE FindFrom(_, _, _)
FindFrom(s, x, i) ==
    IF i > Len(s) THEN i
    ELSE IF s[i] = x THEN i
    ELSE FindFrom(s, x, i + 1)

\* std::find(s.begin(), s.end(), x): index of the first x, Len(s) + 1 for end()
std_find(s, x) == FindFrom(s, x, 1)

end(s) == Len(s) + 1

-----------------------------------------------------------------------------
(* Module identifiers, modes and the path registry *)

ModulesModes == {"AUTOMATIC", "MIXED", "MANUAL"}

\* the hardcoded list of modules that load automatically
auto_lle_modules ==
    <<"SAS", "PGF", "SYSTEM_GESTURE", "XML", "MP4", "ATRAC", "AVPLAYER",
      "JSON", "HTTP", "SSL", "HTTPS">>

\* a module of the catalogue that is not in the automatic list
OtherModules == {"NET"}

\* the recognized enumerants
KnownIds == Range(auto_lle_modules) \cup OtherModules

\* an identifier that is no entry of the registry
UnknownIds == {"INVALID"}

\* the identifiers the queries and the loader are exercised with
CalledIds == {"SSL", "SAS", "NET", "INVALID"}

\* the paths the user allow-list is drawn from
LlePaths == {"libssl", "libnet"}

LleLists == SeqsUpTo(LlePaths, MaxLle)

\* a registry with every known module present (module binary, then dependencies)
BasePaths(module_id) ==
    CASE module_id = "SSL" -> <<"libssl">>
      [] module_id = "HTTPS" -> <<"libhttp", "libssl">>
      [] module_id = "HTTP" -> <<"libhttp">>
      [] module_id = "NET" -> <<"libnet", "libssl">>
      [] module_id = "SAS" -> <<"libsas">>
      [] OTHER -> <<"libsys">>

RegistryWithout(E) == [m \in KnownIds |-> IF m \in E THEN <<>> ELSE BasePaths(m)]

\* the registries the model starts from: all paths known, the paths of one
\* exercised module unknown, no paths known
Registries ==
    {RegistryWithout({})} \cup {RegistryWithout({m}) : m \in CalledIds \cap KnownIds}
        \cup {RegistryWithout(KnownIds)}

\* sysmodule_paths[module_id]: the empty sequence for an unknown identifier
paths_for(registry, module_id) ==
    IF module_id \in DOMAIN registry THEN registry[module_id] ELSE <<>>

-----------------------------------------------------------------------------
(* load_module.cpp *)

RECURSIVE AnyPathListed(_, _, _)
\* for (auto path : paths) if (std::find(lle_modules, path) != end) return true;
AnyPathListed(paths, lle, i) ==
    IF i > Len(paths) THEN FALSE
    ELSE IF std_find(lle, paths[i]) # end(lle) THEN TRUE
    ELSE AnyPathListed(paths, lle, i + 1)

\* is_lle_module with the have_paths guard left out
is_lle_module_no_guard(module_id) ==
    LET paths == paths_for(sysmodule_paths, module_id)
    IN  IF /\ modules_mode # "MANUAL"
           /\ std_find(auto_lle_modules, module_id) # end(auto_lle_modules)
        THEN TRUE
        ELSE IF /\ modules_mode # "AUTOMATIC"
                /\ AnyPathListed(paths, lle_modules, 1)
             THEN TRUE
             ELSE FALSE

\* is_lle_module whose scan of the automatic list stops one element early
is_lle_module_short_scan(module_id) ==
    LET paths == paths_for(sysmodule_paths, module_id)
        have_paths == paths # <<>>
        scanned == SubSeq(auto_lle_modules, 1, Len(auto_lle_modules) - 1)
    IN  IF have_paths
        THEN IF /\ modules_mode # "MANUAL"
                /\ std_find(scanned, module_id) # end(scanned)
             THEN TRUE
             ELSE IF /\ modules_mode # "AUTOMATIC"
                     /\ AnyPathListed(paths, lle_modules, 1)
                  THEN TRUE
                  ELSE FALSE
        ELSE FALSE

\* is_lle_module that tests only the first path of the module
is_lle_module_first_path(module_id) ==
    LET paths == paths_for(sysmodule_paths, module_id)
        have_paths == paths # <<>>
    IN  IF have_paths
        THEN IF /\ modules_mode # "MANUAL"
                /\ std_find(auto_lle_modules, module_id) # end(auto_lle_modules)
             THEN TRUE
             ELSE IF /\ modules_mode # "AUTOMATIC"
                     /\ std_find(lle_modules, paths[1]) # end(lle_modules)
                  THEN TRUE
                  ELSE FALSE
        ELSE FALSE

\* is_lle_module whose automatic check is not gated by the mode
is_lle_module_ungated(module_id) ==
    LET paths == paths_for(sysmodule_paths, module_id)
        have_paths == paths # <<>>
    IN  IF have_paths
        THEN IF std_find(auto_lle_modules, module_id) # end(auto_lle_modules)
             THEN TRUE
             ELSE IF /\ modules_mode # "AUTOMATIC"
                     /\ AnyPathListed(paths, lle_modules, 1)
                  THEN TRUE
                  ELSE FALSE
        ELSE FALSE

\* is_lle_module whose paths are a static local, kept from the previous call
is_lle_module_static_paths(module_id) ==
    LET paths == IF last_call.fn = "is_lle_module"
                 THEN paths_for(sysmodule_paths, last_call.id)
                 ELSE paths_for(sysmodule_paths, module_id)
        have_paths == paths # <<>>
    IN  IF have_paths
        THEN IF /\ modules_mode # "MANUAL"
                /\ std_find(auto_lle_modules, module_id) # end(auto_lle_modules)
             THEN TRUE
             ELSE IF /\ modules_mode # "AUTOMATIC"
                     /\ AnyPathListed(paths, lle_modules, 1)
                  THEN TRUE
                  ELSE FALSE
        ELSE FALSE

is_lle_module(module_id) ==
    LET paths == paths_for(sysmodule_paths, module_id)
        have_paths == paths # <<>>
    IN  IF have_paths
        THEN IF /\ modules_mode # "MANUAL"
                /\ std_find(auto_lle_modules, module_id) # end(auto_lle_modules)
             THEN TRUE
             ELSE IF /\ modules_mode # "AUTOMATIC"
                     /\ AnyPathListed(paths, lle_modules, 1)
                  THEN TRUE
                  ELSE FALSE
        ELSE FALSE

\* is_module_loaded whose scan stops before the last element
is_module_loaded_short_scan(module_id) ==
    LET scanned == SubSeq(loaded_sysmodules, 1, Len(loaded_sysmodules) - 1)
    IN  std_find(scanned, module_id) # end(scanned)

\* is_module_loaded with the comparison against end() inverted
is_module_loaded_inverted(module_id) ==
    std_find(loaded_sysmodules, module_id) = end(loaded_sysmodules)

is_module_loaded(module_id) ==
    std_find(loaded_sysmodules, module_id) # end(loaded_sysmodules)

NoCall == [fn |-> "none", id |-> "none", ret |-> FALSE]

NoMemo == [id |-> "none", mode |-> "none", lle |-> <<>>, ret |-> FALSE]

\* a call whose registry lookup inserts an empty entry for a missing key
CallIsLleModule_inserting(module_id) ==
    /\ last_call' = [fn |-> "is_lle_module", id |-> module_id,
                     ret |-> is_lle_module(module_id)]
    /\ sysmodule_paths' =
           [m \in DOMAIN sysmodule_paths \cup {module_id} |->
               paths_for(sysmodule_paths, m)]
    /\ UNCHANGED <<modules_mode, lle_modules, loaded_sysmodules, memo>>
    /\ UNCHANGED gui_vars

\* a call of is_lle_module(module_id, emuenv)
CallIsLleModule(module_id) ==
    /\ last_call' = [fn |-> "is_lle_module", id |-> module_id,
                     ret |-> is_lle_module(module_id)]
    /\ UNCHANGED <<sysmodule_paths, modules_mode, lle_modules, loaded_sysmodules, memo>>
    /\ UNCHANGED gui_vars

\* a call of is_module_loaded(kernel, module_id)
CallIsModuleLoaded(module_id) ==
    /\ last_call' = [fn |-> "is_module_loaded", id |-> module_id,
                     ret |-> is_module_loaded(module_id)]
    /\ UNCHANGED <<sysmodule_paths, modules_mode, lle_modules, loaded_sysmodules, memo>>
    /\ UNCHANGED gui_vars

-----------------------------------------------------------------------------
(* The collaborators of the resolver: kernel module loader, configuration *)

\* the kernel records a load of a recognized module it has not loaded yet
LoadSysmodule(module_id) ==
    /\ module_id \in KnownIds
    /\ ~is_module_loaded(module_id)
    /\ Len(loaded_sysmodules) < MaxLoaded
    /\ loaded_sysmodules' = Append(loaded_sysmodules, module_id)
    /\ UNCHANGED <<sysmodule_paths, modules_mode, lle_modules, last_call, memo>>
    /\ UNCHANGED gui_vars

\* session teardown clears the loaded-module set
ResetSession ==
    /\ loaded_sysmodules' = <<>>
    /\ UNCHANGED <<sysmodule_paths, modules_mode, lle_modules, last_call, memo>>
    /\ UNCHANGED gui_vars

\* the configuration provider changes the mode
SetModulesMode(mode) ==
    /\ modules_mode' = mode
    /\ UNCHANGED <<sysmodule_paths, lle_modules, loaded_sysmodules, last_call, memo>>
    /\ UNCHANGED gui_vars

\* the configuration provider changes the user allow-list
SetLleModules(lle) ==
    /\ lle_modules' = lle
    /\ UNCHANGED <<sysmodule_paths, modules_mode, loaded_sysmodules, last_call, memo>>
    /\ UNCHANGED gui_vars

InitGuiIdle ==
    /\ modules = <<>>
    /\ cfg_lle_modules = <<>>
    /\ module_search_bar = <<>>
    /\ last_op = [kind |-> "none", arg |-> <<>>]

Init ==
    /\ sysmodule_paths \in Registries
    /\ modules_mode \in ModulesModes
    /\ lle_modules \in LleLists
    /\ loaded_sysmodules = <<>>
    /\ last_call = NoCall
    /\ memo = NoMemo
    /\ InitGuiIdle

Next ==
    \/ \E module_id \in CalledIds : CallIsLleModule(module_id)
    \/ \E module_id \in CalledIds : CallIsModuleLoaded(module_id)
    \/ \E module_id \in CalledIds : LoadSysmodule(module_id)
    \/ ResetSession
    \/ \E mode \in ModulesModes : SetModulesMode(mode)
    \/ \E lle \in LleLists : SetLleModules(lle)

Spec == Init /\ [][Next]_vars

-----------------------------------------------------------------------------
(* Repeated queries: a call of is_lle_module is remembered with the mode and *)
(* the allow-list it saw, while further queries and configuration changes    *)
(* follow.                                                                   *)

\* a call of is_lle_module(module_id, emuenv) that is remembered
RememberIsLleModule(module_id) ==
    /\ last_call' = [fn |-> "is_lle_module", id |-> module_id,
                     ret |-> is_lle_module(module_id)]
    /\ memo' = [id |-> module_id, mode |-> modules_mode, lle |-> lle_modules,
                ret |-> is_lle_module(module_id)]
    /\ UNCHANGED <<sysmodule_paths, modules_mode, lle_modules, loaded_sysmodules>>
    /\ UNCHANGED gui_vars

NextIdem ==
    \/ \E module_id \in CalledIds : RememberIsLleModule(module_id)
    \/ \E module_id \in CalledIds : CallIsLleModule(module_id)
    \/ \E module_id \in CalledIds : CallIsModuleLoaded(module_id)
    \/ \E mode \in ModulesModes : SetModulesMode(mode)
    \/ \E lle \in LleLists : SetLleModules(lle)

SpecIdem == Init /\ [][NextIdem]_vars

-----------------------------------------------------------------------------
(* settings_dialog.cpp: the module list of the settings dialog *)

\* module names are strings, modelled as sequences of character codes
\* (1 for 'a', 2 for 'b'): "a", "ab", "b"
ModuleNames == {<<1>>, <<1, 2>>, <<2>>}

\* the files a modules directory may hold: one .suprx file per module name and
\* a file of another kind
DirFiles ==
    {[stem |-> n, ext |-> ".suprx"] : n \in ModuleNames}
        \cup {[stem |-> <<1>>, ext |-> ".txt"]}

\* every order in which the files of S can be listed
RECURSIVE Listings(_)
Listings(S) ==
    IF S = {} THEN {<<>>}
    ELSE UNION {{<<f>> \o rest : rest \in Listings(S \ {f})} : f \in S}

\* the modules directory as get_modules_list finds it: missing, or present
\* with its files in the order the directory iterator yields them
DirStates ==
    {[exists |-> FALSE, files |-> <<>>]}
        \cup {[exists |-> TRUE, files |-> l] : l \in UNION {Listings(S) : S \in SUBSET DirFiles}}

\* the texts typed in the search bar: "", "a", "b"
Filters == {<<>>, <<1>>, <<2>>}

RECURSIVE StrLess(_, _)
\* std::string operator<: lexicographic order
StrLess(a, b) ==
    IF b = <<>> THEN FALSE
    ELSE IF a = <<>> THEN TRUE
    ELSE IF Head(a) # Head(b) THEN Head(a) < Head(b)
    ELSE StrLess(Tail(a), Tail(b))

\* ImGuiTextFilter::PassFilter for a single search term: an empty filter
\* passes every name, another one the names that contain it
PassFilter(filter, name) ==
    \/ filter = <<>>
    \/ \E i \in 0..(Len(name) - Len(filter)) : SubSeq(name, i + 1, i + Len(filter)) = filter

\* std::vector::erase(it)
erase(s, i) == SubSeq(s, 1, i - 1) \o SubSeq(s, i + 1, Len(s))

\* the comparator with the wrong operand's flag returned: unselected first
ModuleBefore_unselected_first(ma, mb) ==
    IF ma.second = mb.second THEN StrLess(ma.first, mb.first) ELSE mb.second

\* the comparator handed to std::sort: selected modules first, then by name
ModuleBefore(ma, mb) ==
    IF ma.second = mb.second THEN StrLess(ma.first, mb.first) ELSE ma.second

RECURSIVE InsertSorted(_, _)
InsertSorted(sorted, m) ==
    IF sorted = <<>> THEN <<m>>
    ELSE IF ModuleBefore(m, Head(sorted)) THEN <<m>> \o sorted
    ELSE <<Head(sorted)>> \o InsertSorted(Tail(sorted), m)

RECURSIVE std_sort(_)
\* std::sort with ModuleBefore
std_sort(s) == IF s = <<>> THEN <<>> ELSE InsertSorted(std_sort(Tail(s)), Head(s))

RECURSIVE CollectSuprx(_)
\* one (name, false) entry per file with the extension .suprx
CollectSuprx(files) ==
    IF files = <<>> THEN <<>>
    ELSE IF Head(files).ext = ".suprx"
         THEN <<[first |-> Head(files).stem, second |-> FALSE]>> \o CollectSuprx(Tail(files))
         ELSE CollectSuprx(Tail(files))

\* m.second = std::find(lle_modules, m.first) != end, for every entry
MarkSelected(ms, lle) ==
    [i \in 1..Len(ms) |->
        [first |-> ms[i].first, second |-> std_find(lle, ms[i].first) # end(lle)]]

\* gui.modules after get_modules_list(gui, host)
get_modules_list(dir, lle) ==
    IF dir.exists /\ dir.files # <<>>
    THEN std_sort(MarkSelected(CollectSuprx(dir.files), lle))
    ELSE <<>>

\* a click on entry i whose Selectable does not flip the selected flag
ToggleModule_no_flip(i) ==
    /\ modules # <<>>
    /\ i \in 1..Len(modules)
    /\ PassFilter(module_search_bar, modules[i].first)
    /\ LET m == modules[i]
           module == std_find(cfg_lle_modules, m.first)
           module_existed == module # end(cfg_lle_modules)
       IN  /\ modules' = modules
           /\ cfg_lle_modules' =
                  IF module_existed THEN erase(cfg_lle_modules, module)
                  ELSE Append(cfg_lle_modules, m.first)
           /\ last_op' = [kind |-> "toggle", arg |-> m.first]
    /\ UNCHANGED module_search_bar
    /\ UNCHANGED resolver_vars

\* a click on entry i that appends the name without looking for it first
ToggleModule_always_push(i) ==
    /\ modules # <<>>
    /\ i \in 1..Len(modules)
    /\ PassFilter(module_search_bar, modules[i].first)
    /\ LET m == modules[i]
       IN  /\ modules' = [modules EXCEPT ![i].second = ~m.second]
           /\ cfg_lle_modules' = Append(cfg_lle_modules, m.first)
           /\ last_op' = [kind |-> "toggle", arg |-> m.first]
    /\ UNCHANGED module_search_bar
    /\ UNCHANGED resolver_vars

\* a frame of draw_settings_dialog in which entry i of the list box is clicked
ToggleModule(i) ==
    /\ modules # <<>>
    /\ i \in 1..Len(modules)
    /\ PassFilter(module_search_bar, modules[i].first)
    /\ LET m == modules[i]
           module == std_find(cfg_lle_modules, m.first)
           module_existed == module # end(cfg_lle_modules)
       IN  /\ modules' = [modules EXCEPT ![i].second = ~m.second]
           /\ cfg_lle_modules' =
                  IF module_existed THEN erase(cfg_lle_modules, module)
                  ELSE Append(cfg_lle_modules, m.first)
           /\ last_op' = [kind |-> "toggle", arg |-> m.first]
    /\ UNCHANGED module_search_bar
    /\ UNCHANGED resolver_vars

\* a frame in which "Clear list" is clicked
ClearList ==
    /\ modules # <<>>
    /\ cfg_lle_modules' = <<>>
    /\ modules' = [i \in 1..Len(modules) |-> [first |-> modules[i].first, second |-> FALSE]]
    /\ last_op' = [kind |-> "clear", arg |-> cfg_lle_modules]
    /\ UNCHANGED module_search_bar
    /\ UNCHANGED resolver_vars

\* a frame in which "Refresh list" is clicked, the directory being dir
RefreshList(dir) ==
    /\ modules' = get_modules_list(dir, cfg_lle_modules)
    /\ last_op' = [kind |-> "refresh", arg |-> <<>>]
    /\ UNCHANGED <<cfg_lle_modules, module_search_bar>>
    /\ UNCHANGED resolver_vars

\* "Change Emulator Path" or "Reset Path Emulator": the modules directory of
\* the new preference path is dir
change_emulator_path(dir) ==
    /\ modules' = get_modules_list(dir, cfg_lle_modules)
    /\ last_op' = [kind |-> "path", arg |-> <<>>]
    /\ UNCHANGED <<cfg_lle_modules, module_search_bar>>
    /\ UNCHANGED resolver_vars

\* a frame in which the text of the search bar is edited
EditSearchBar(filter) ==
    /\ modules # <<>>
    /\ module_search_bar' = filter
    /\ last_op' = [kind |-> "search", arg |-> <<>>]
    /\ UNCHANGED <<modules, cfg_lle_modules>>
    /\ UNCHANGED resolver_vars

\* the allow-lists of names a configuration without duplicate entries holds
InitLleLists == {l \in SeqsUpTo(ModuleNames, MaxInitLle) : NoDuplicates(l)}

\* the dialog after start-up: the configuration is loaded and get_modules_list
\* has run once
InitGui ==
    /\ cfg_lle_modules \in InitLleLists
    /\ \E dir \in DirStates : modules = get_modules_list(dir, cfg_lle_modules)
    /\ module_search_bar = <<>>
    /\ last_op = [kind |-> "init", arg |-> <<>>]
    /\ sysmodule_paths = RegistryWithout({})
    /\ modules_mode = "AUTOMATIC"
    /\ lle_modules = <<>>
    /\ loaded_sysmodules = <<>>
    /\ last_call = NoCall
    /\ memo = NoMemo

NextGui ==
    \/ \E i \in 1..Cardinality(ModuleNames) : ToggleModule(i)
    \/ ClearList
    \/ \E dir \in DirStates : RefreshList(dir)
    \/ \E dir \in DirStates : change_emulator_path(dir)
    \/ \E filter \in Filters : EditSearchBar(filter)

SpecGui == InitGui /\ [][NextGui]_vars

-----------------------------------------------------------------------------
(* get_modules_list over a directory tree: the recursive iterator also      *)
(* yields the files of subdirectories, so two files may share a name.       *)

\* most files the modules directory tree holds
MaxFiles == 3

\* the files of the tree: the .suprx files of the directory itself, a copy of
\* "a.suprx" in a subdirectory, and a file of another kind
TreeFiles ==
    {[dir |-> "", stem |-> n, ext |-> ".suprx"] : n \in ModuleNames}
        \cup {[dir |-> "sub", stem |-> <<1>>, ext |-> ".suprx"],
              [dir |-> "", stem |-> <<1>>, ext |-> ".txt"]}

\* the modules directory: missing, or present with at most MaxFiles files in
\* the order the recursive iterator yields them
DirTrees ==
    {[exists |-> FALSE, files |-> <<>>]}
        \cup {[exists |-> TRUE, files |-> l] :
                 l \in UNION {Listings(S) :
                                 S \in {T \in SUBSET TreeFiles : Cardinality(T) <= MaxFiles}}}

\* a call of get_modules_list(gui, host), the modules directory being dir
CallGetModulesList(dir) ==
    /\ modules' = get_modules_list(dir, cfg_lle_modules)
    /\ last_op' = [kind |-> "list", arg |-> dir]
    /\ UNCHANGED <<cfg_lle_modules, module_search_bar>>
    /\ UNCHANGED resolver_vars

InitList ==
    /\ cfg_lle_modules \in InitLleLists
    /\ \E dir \in DirTrees :
           /\ modules = get_modules_list(dir, cfg_lle_modules)
           /\ last_op = [kind |-> "list", arg |-> dir]
    /\ module_search_bar = <<>>
    /\ sysmodule_paths = RegistryWithout({})
    /\ modules_mode = "AUTOMATIC"
    /\ lle_modules = <<>>
    /\ loaded_sysmodules = <<>>
    /\ last_call = NoCall
    /\ memo = NoMemo

NextList ==
    \/ \E dir \in DirTrees : CallGetModulesList(dir)
    \/ \E i \in 1..(MaxFiles + 1) : ToggleModule(i)
    \/ ClearList

SpecList == InitList /\ [][NextList]_vars

-----------------------------------------------------------------------------
(* Properties of the load-policy resolver and the loaded-module tracker *)

AllIds == KnownIds \cup UnknownIds

AutoLleSet ==
    {"SAS", "PGF", "SYSTEM_GESTURE", "XML", "MP4", "ATRAC", "AVPLAYER",
     "JSON", "HTTP", "SSL", "HTTPS"}

PathsOf(module_id) == paths_for(sysmodule_paths, module_id)

\* at least one path of the module is an element of the user allow-list
SomePathAllowed(module_id) ==
    \E i \in 1..Len(PathsOf(module_id)) : PathsOf(module_id)[i] \in Range(lle_modules)

LleCallOf(module_id) ==
    last_call.fn = "is_lle_module" /\ last_call.id = module_id

\* C1: a module whose registry path set is empty is never LLE, whatever the
\* mode and the allow-list, also when it is in the automatic list; a call made
\* for such a module returned false.
C1_EmptyPathsNeverLle ==
    \A m \in AllIds :
        PathsOf(m) = <<>> =>
            /\ ~is_lle_module(m)
            /\ LleCallOf(m) => last_call.ret = FALSE

C1_Witness ==
    /\ LleCallOf("SSL")
    /\ "SSL" \in AutoLleSet
    /\ PathsOf("SSL") = <<>>
    /\ PathsOf("NET") # <<>>
    /\ modules_mode = "AUTOMATIC"
    /\ lle_modules = <<"libssl", "libnet">>
    /\ last_call.ret = FALSE

\* C2: every module of the automatic list whose path set is non-empty is LLE
\* whenever the mode is not MANUAL, whatever the allow-list holds.
C2_AutoListIsLle ==
    \A m \in AutoLleSet :
        (PathsOf(m) # <<>> /\ modules_mode # "MANUAL") => is_lle_module(m)

C2_Witness ==
    /\ LleCallOf("SSL")
    /\ last_call.ret = TRUE
    /\ PathsOf("SSL") # <<>>
    /\ modules_mode = "AUTOMATIC"
    /\ lle_modules = <<>>

\* C3: a module outside the automatic list with a non-empty path set is LLE
\* exactly when the mode is not AUTOMATIC and one of its paths is in the
\* allow-list; in AUTOMATIC mode it is not LLE even with all its paths listed.
C3_ManualListDecides ==
    \A m \in KnownIds \ AutoLleSet :
        PathsOf(m) # <<>> =>
            /\ is_lle_module(m) <=> (modules_mode # "AUTOMATIC" /\ SomePathAllowed(m))
            /\ modules_mode = "AUTOMATIC" => ~is_lle_module(m)

C3_Witness ==
    /\ LleCallOf("NET")
    /\ last_call.ret = TRUE
    /\ modules_mode = "MANUAL"
    /\ PathsOf("NET") = <<"libnet", "libssl">>
    /\ lle_modules = <<"libssl">>

LoadedSet == Range(loaded_sysmodules)

C4_Membership == \A m \in AllIds : is_module_loaded(m) <=> m \in LoadedSet

C4_Step ==
    /\ \A m \in AllIds : LoadSysmodule(m) => is_module_loaded(m)'
    /\ \A m \in AllIds : (is_module_loaded(m) /\ ~ResetSession) => is_module_loaded(m)'
    /\ ResetSession => \A m \in AllIds : ~is_module_loaded(m)'

\* C4: is_module_loaded(m) equals membership of m in the loaded-module set:
\* false for every m before any load, true right after a load of m is
\* recorded and for as long as the session lasts, false for every m after a
\* session reset.
C4_LoadedTracksKernel ==
    /\ \A m \in AllIds : ~is_module_loaded(m)
    /\ []C4_Membership
    /\ [][C4_Step]_vars

C4_Witness ==
    /\ Len(loaded_sysmodules) = 2
    /\ last_call.fn = "is_module_loaded"
    /\ last_call.id = loaded_sysmodules[1]
    /\ last_call.ret = TRUE

\* C5: a step in which a query is made and answered leaves the registry, the
\* mode, the allow-list and the loaded-module set as they were.
C5_QueriesArePure ==
    [][last_call' # last_call =>
          UNCHANGED <<sysmodule_paths, modules_mode, lle_modules, loaded_sysmodules>>]_vars

C5_Witness ==
    /\ LleCallOf("INVALID")
    /\ loaded_sysmodules # <<>>
    /\ lle_modules # <<>>
    /\ DOMAIN sysmodule_paths = KnownIds

\* C6: for an identifier that is no entry of the registry both queries answer
\* false, under every mode and allow-list, and both can always be made.
C6_UnknownIdIsFalse ==
    \A m \in UnknownIds :
        /\ m \notin DOMAIN sysmodule_paths
        /\ ~is_lle_module(m)
        /\ ~is_module_loaded(m)
        /\ last_call.id = m => last_call.ret = FALSE
        /\ ENABLED CallIsLleModule(m)
        /\ ENABLED CallIsModuleLoaded(m)

C6_Witness ==
    /\ last_call = [fn |-> "is_module_loaded", id |-> "INVALID", ret |-> FALSE]
    /\ Len(loaded_sysmodules) = 2
    /\ modules_mode = "MIXED"
    /\ lle_modules # <<>>

SameConfigAsMemo ==
    /\ memo.id # "none"
    /\ memo.mode = modules_mode
    /\ memo.lle = lle_modules

C8_ModeGating ==
    /\ modules_mode = "MANUAL" =>
           \A m \in AutoLleSet :
               PathsOf(m) # <<>> =>
                   /\ is_lle_module(m) <=> SomePathAllowed(m)
                   /\ lle_modules = <<>> => ~is_lle_module(m)
    /\ modules_mode \notin {"AUTOMATIC", "MANUAL"} =>
           \A m \in KnownIds :
               PathsOf(m) # <<>> =>
                   (is_lle_module(m) <=> (m \in AutoLleSet \/ SomePathAllowed(m)))

C8_Witness ==
    /\ LleCallOf("SSL")
    /\ last_call.ret = FALSE
    /\ PathsOf("SSL") # <<>>
    /\ modules_mode = "MANUAL"
    /\ lle_modules = <<>>

-----------------------------------------------------------------------------
(* Properties of the settings dialog *)

ListedNames == {modules[i].first : i \in 1..Len(modules)}

InAllowList(name) == name \in Range(cfg_lle_modules)

\* the allow-list without name, the other entries in their order
Without(lle, name) == SelectSeq(lle, LAMBDA x : x # name)

C9_FlagsMatchAllowList ==
    /\ \A i, j \in 1..Len(modules) : modules[i].first = modules[j].first => i = j
    /\ \A i \in 1..Len(modules) : modules[i].second <=> InAllowList(modules[i].first)

C9_ToggleStep ==
    last_op'.kind = "toggle" =>
        LET name == last_op'.arg
        IN  /\ name \in ListedNames
            /\ PassFilter(module_search_bar, name)
            /\ InAllowList(name) => cfg_lle_modules' = Without(cfg_lle_modules, name)
            /\ ~InAllowList(name) => cfg_lle_modules' = Append(cfg_lle_modules, name)
            /\ Len(modules') = Len(modules)
            /\ \A i \in 1..Len(modules) :
                   /\ modules'[i].first = modules[i].first
                   /\ modules[i].first # name => modules'[i].second = modules[i].second
            /\ \A other \in ModuleNames \ {name} :
                   InAllowList(other)' <=> InAllowList(other)

\* C9: with pairwise distinct listed names and an allow-list without
\* duplicates at the start, after any sequence of toggles, 'Clear list' and
\* 'Refresh list' every listed module's selected flag equals membership of its
\* name in the allow-list; a toggle removes the name when it was present,
\* appends it when it was absent, and changes neither the flag nor the
\* membership of any other module.
C9_ListAgreesWithAllowList ==
    /\ []C9_FlagsMatchAllowList
    /\ [][C9_ToggleStep]_vars

C9_Witness ==
    /\ last_op.kind = "toggle"
    /\ Len(modules) = 3
    /\ ~modules[1].second
    /\ modules[2].second
    /\ ~PassFilter(module_search_bar, modules[2].first)
    /\ last_op.arg = modules[1].first

C10_Step ==
    /\ (last_op'.kind = "toggle" /\ Len(cfg_lle_modules') > Len(cfg_lle_modules)) =>
           /\ ~InAllowList(last_op'.arg)
           /\ cfg_lle_modules' = Append(cfg_lle_modules, last_op'.arg)
    /\ last_op'.kind = "clear" =>
           /\ cfg_lle_modules' = <<>>
           /\ last_op'.arg = cfg_lle_modules

\* C10: an allow-list without duplicate entries has none after any sequence of
\* toggles, 'Clear list' and 'Refresh list': a toggle appends a name only when
\* the list does not hold it, and 'Clear list' leaves the list empty, entries
\* hidden by the search filter or not listed included.
C10_NoDuplicateEntries ==
    /\ []NoDuplicates(cfg_lle_modules)
    /\ [][C10_Step]_vars

C10_Witness ==
    /\ last_op.kind = "clear"
    /\ cfg_lle_modules = <<>>
    /\ Len(last_op.arg) = 3
    /\ \E name \in Range(last_op.arg) : name \notin ListedNames
    /\ \E name \in Range(last_op.arg) :
           name \in ListedNames /\ ~PassFilter(module_search_bar, name)

\* the number of entries of s that satisfy Test
CountIf(s, Test(_)) == Cardinality({i \in 1..Len(s) : Test(s[i])})

SuprxFilesNamed(dir, name) ==
    CountIf(dir.files, LAMBDA f : f.ext = ".suprx" /\ f.stem = name)

EntriesNamed(name) == CountIf(modules, LAMBDA m : m.first = name)

C11_AfterListing ==
    last_op.kind = "list" =>
        LET dir == last_op.arg
        IN  /\ \A name \in ModuleNames : EntriesNamed(name) = SuprxFilesNamed(dir, name)
            /\ Len(modules) = CountIf(dir.files, LAMBDA f : f.ext = ".suprx")
            /\ (~dir.exists \/ dir.files = <<>>) => modules = <<>>
            /\ \A i \in 1..Len(modules) :
                   modules[i].second <=> InAllowList(modules[i].first)
            /\ \A i, j \in 1..Len(modules) :
                   i < j =>
                       /\ modules[j].second => modules[i].second
                       /\ modules[i].second = modules[j].second =>
                              ~StrLess(modules[j].first, modules[i].first)

\* C11: right after get_modules_list returns, the module list holds exactly
\* one entry per .suprx file under the modules directory (none when the
\* directory is missing or empty), each flag equals membership of the name in
\* the allow-list, selected entries precede unselected ones, names ascend
\* within each group, and the allow-list is what it was before the call.
C11_ListingIsSortedAndComplete ==
    /\ []C11_AfterListing
    /\ [][last_op'.kind = "list" => cfg_lle_modules' = cfg_lle_modules]_vars

C11_Witness ==
    /\ last_op.kind = "list"
    /\ Len(last_op.arg.files) = 3
    /\ last_op.arg.files[1].stem = <<1>>
    /\ last_op.arg.files[2].dir = "sub"
    /\ last_op.arg.files[3].stem = <<2>>
    /\ cfg_lle_modules = <<(<<2>>)>>
    /\ modules = << [first |-> <<2>>, second |-> TRUE],
                    [first |-> <<1>>, second |-> FALSE],
                    [first |-> <<1>>, second |-> FALSE] >>

====
